---- MODULE Spec2Model ----
(***************************************************************************)
(* A model of src/src/hss.js: the Reader (character source and lexical     *)
(* scanner), the Context hierarchy (RootContext, HssContext, JsContext)    *)
(* and the Transpiler driver loop.  Text is a sequence of one-character    *)
(* strings.  One transpile run is one behaviour: Init picks the input,     *)
(* every step is one iteration of the driver loop or of a scanner's inner  *)
(* loop, and the run ends in pc = "done" (output returned) or pc = "error" *)
(* (SyntaxError thrown).                                                   *)
(***************************************************************************)
EXTENDS Integers, Sequences, FiniteSets

VARIABLES
    orig,    \* the input text given to the constructor (never changed)
    input,   \* Reader.input: the text not yet consumed
    line,    \* Reader.line
    ctx,     \* the chain of open contexts, Root first; Reader.context is the last
    pc,      \* where the run is: "main", "string", "lineComment", "blockComment", "done", "error"
    type,    \* the local type of Reader.STRING (the delimiter that opened the string)
    tok,     \* the local accumulator of a scanner (str in STRING, content in the comments)
    mark,    \* the length of input when the current driver iteration began
    result,  \* what transpile returned
    err      \* what transpile threw

vars == <<orig, input, line, ctx, pc, type, tok, mark, result, err>>

----------------------------------------------------------------------------
(* Bounds of the model *)

MaxLen == 4
MaxPieces == 6
MaxTokens == 2

----------------------------------------------------------------------------
(* Characters and fixed texts *)

BS == "\\"
NL == "\n"
SQ == "'"
DQ == "\""
\* the backtick, spelled out: the character itself cannot be written in a module
BT == "backtick"

Alphabet == {"<", ">", "[", "]", SQ, DQ, BT, BS, "/", "*", NL, " ", "a"}

\* quoteRegex: single quote, double quote, backtick
quoteRegex == {SQ, DQ, BT}

\* whitespaceRegex = /\s+/ on the characters of the model
whitespaceRegex == {" ", NL, "\t"}

COMMENT == "COMMENT"
STRING_ == "STRING"
WHITESPACE == "WHITESPACE"
NoType == "NONE"

\* what next() returns on exhausted input
Undefined == "undefined"

UndefinedText == <<"u", "n", "d", "e", "f", "i", "n", "e", "d">>
NaNText == <<"N", "a", "N">>

EvaluateOpen ==
    <<"s", "h", "e", "a", "t", "h", ".", "c", "s", "s", ".",
      "e", "v", "a", "l", "u", "a", "t", "e", "(">>

JsExprOpen ==
    <<"'", " ", "+", " ", "s", "h", "e", "a", "t", "h", ".", "c", "s", "s", ".",
      "j", "s", "E", "x", "p", "r", "(">>

JsExprClose == <<")", " ", "+", " ", "'">>

----------------------------------------------------------------------------
(* Reader: the character source *)

\* peek(): the next character, or undefined
Peek(inp) == IF inp = <<>> THEN Undefined ELSE Head(inp)

\* peek(2): input.slice(0, 2)
Peek2(inp) == IF Len(inp) >= 2 THEN SubSeq(inp, 1, 2) ELSE inp

\* next() that forgets to drop the character it returns
Rest_Stuck(inp) == inp

\* next(): the input left after one call
Rest(inp) == IF inp = <<>> THEN <<>> ELSE Tail(inp)

\* next() that never counts a line
LineAfter_NoCount(inp, ln) == ln

\* next(): the line after one call
LineAfter(inp, ln) == IF inp # <<>> /\ Head(inp) = NL THEN ln + 1 ELSE ln

\* string concatenation of a value next() returned
Text(c) == IF c = Undefined THEN UndefinedText ELSE <<c>>

----------------------------------------------------------------------------
(* Contexts *)

\* a context that takes no snapshot of the current line
NewCtx_NoSnapshot(kind, ln) ==
    [kind |-> kind, content |-> <<>>, startingLine |-> 1,
     ignoreCount |-> 0, childContext |-> 0]

NewCtx(kind, ln) ==
    [kind |-> kind, content |-> <<>>, startingLine |-> ln,
     ignoreCount |-> 0, childContext |-> 0]

endDelimiter(c) ==
    CASE c.kind = "Hss" -> <<">", ">">>
      [] c.kind = "Js" -> <<"]">>
      [] OTHER -> <<>>

name(c) ==
    CASE c.kind = "Hss" -> "Hss expression"
      [] c.kind = "Js" -> "JavaScript expression"
      [] OTHER -> ""

IsSpace(c) == c \in whitespaceRegex

RECURSIVE TrimLeft(_)
TrimLeft(s) == IF s # <<>> /\ IsSpace(Head(s)) THEN TrimLeft(Tail(s)) ELSE s

RECURSIVE TrimRight(_)
TrimRight(s) ==
    IF s # <<>> /\ IsSpace(s[Len(s)]) THEN TrimRight(SubSeq(s, 1, Len(s) - 1)) ELSE s

\* String.prototype.trim
Trim(s) == TrimRight(TrimLeft(s))

\* beforeAdd counting a bracket anywhere in the added text
beforeAdd_AnyBracket(c, str) ==
    IF c.kind = "Js" /\ \E i \in 1..Len(str) : str[i] = "["
    THEN [c EXCEPT !.ignoreCount = @ + 1]
    ELSE c

\* JsContext.beforeAdd
beforeAdd(c, str) ==
    IF c.kind = "Js" /\ str = <<"[">>
    THEN [c EXCEPT !.ignoreCount = @ + 1]
    ELSE c

\* add putting the text in front of the content
Append_InFront(c, str) == [beforeAdd(c, str) EXCEPT !.content = str \o @]

\* Context.add without a type handler: beforeAdd, then content += str
Append_(c, str) == [beforeAdd(c, str) EXCEPT !.content = @ \o str]

RECURSIVE EscapeQuotes(_)
\* str.replace: every single quote becomes three backslashes and the quote
EscapeQuotes(s) ==
    IF s = <<>> THEN <<>>
    ELSE (IF Head(s) = SQ THEN <<BS, BS, BS, SQ>> ELSE <<Head(s)>>) \o EscapeQuotes(Tail(s))

\* HssContext.STRING
HssSTRING(c, str) ==
    IF str[1] # SQ THEN Append_(c, str)
    ELSE Append_(c, <<BS, SQ>> \o EscapeQuotes(SubSeq(str, 2, Len(str) - 1)) \o <<BS, SQ>>)

\* WHITESPACE adding a space whatever the content ends with
ChildWHITESPACE_NoCollapse(c) == Append_(c, <<" ">>)

\* ChildContext.WHITESPACE
ChildWHITESPACE(c) ==
    IF c.content = <<>> \/ c.content[Len(c.content)] # " "
    THEN Append_(c, <<" ">>)
    ELSE c

\* Context.add with no COMMENT handler in ChildContext
Add_KeepComments(c, str, typ) ==
    CASE typ = WHITESPACE /\ c.kind # "Root" -> ChildWHITESPACE(c)
      [] typ = STRING_ /\ c.kind = "Hss" -> HssSTRING(c, str)
      [] OTHER -> Append_(c, str)

\* Context.add(str, type)
Add(c, str, typ) ==
    CASE typ = COMMENT /\ c.kind # "Root" -> c
      [] typ = WHITESPACE /\ c.kind # "Root" -> ChildWHITESPACE(c)
      [] typ = STRING_ /\ c.kind = "Hss" -> HssSTRING(c, str)
      [] OTHER -> Append_(c, str)

\* toString with no trim in HssContext
toString_NoTrim(c) ==
    CASE c.kind = "Hss" -> <<SQ>> \o c.content \o <<SQ>>
      [] c.kind = "Js" -> JsExprOpen \o c.content \o JsExprClose
      [] OTHER -> c.content

\* toString of each context class
toString(c) ==
    CASE c.kind = "Hss" -> <<SQ>> \o Trim(c.content) \o <<SQ>>
      [] c.kind = "Js" -> JsExprOpen \o c.content \o JsExprClose
      [] OTHER -> c.content

\* saveChildContent without the override of RootContext
SaveChildContent_NoOverride(c, content) == Add(c, content, NoType)

\* saveChildContent of each context class
SaveChildContent(c, content) ==
    IF c.kind = "Root"
    THEN Add(c, EvaluateOpen \o content \o <<")">>, NoType)
    ELSE Add(c, content, NoType)

\* childContextEnd, on the parent p of the closing context child
ChildContextEnd(p, child) ==
    SaveChildContent([p EXCEPT !.childContext = 0], toString(child))

\* newChildContext constructing an HssContext in every class
ChildKind_AlwaysHss(c) == "Hss"

\* the kind newChildContext constructs
ChildKind(c) == IF c.kind = "Hss" THEN "Js" ELSE "Hss"

\* the open delimiter childContextStart looks for
OpenDelimiter(c) == IF c.kind = "Hss" THEN <<"[">> ELSE <<"<", "<">>

\* whether childContextStart() returns true
ChildContextStarts(c, inp) ==
    IF c.kind = "Hss" THEN Peek(inp) = "[" ELSE Peek2(inp) = <<"<", "<">>

\* contextEnd with Root closing at a bracket
SeesEndDelimiter_RootCloses(c, inp) ==
    CASE c.kind = "Hss" -> Peek2(inp) = <<">", ">">>
      [] c.kind = "Js" -> Peek(inp) = "]"
      [] OTHER -> Peek(inp) = "]"

\* whether contextEnd() sees its end delimiter in the lookahead
SeesEndDelimiter(c, inp) ==
    CASE c.kind = "Hss" -> Peek2(inp) = <<">", ">">>
      [] c.kind = "Js" -> Peek(inp) = "]"
      [] OTHER -> FALSE

Cur == ctx[Len(ctx)]

SetCur(c) == [ctx EXCEPT ![Len(ctx)] = c]

NoError == [msg |-> "", line |-> 0, endDelimiter |-> <<>>, name |-> "", startingLine |-> 0]

\* Reader.error
Error(msg) == [NoError EXCEPT !.msg = msg, !.line = line]

----------------------------------------------------------------------------
(* Inputs *)

SeqsUpTo(S, n) == UNION {[1..k -> S] : k \in 0..n}

RECURSIVE Flatten(_)
Flatten(ss) == IF ss = <<>> THEN <<>> ELSE Head(ss) \o Flatten(Tail(ss))

\* every text of at most MaxLen characters
ShortInputs == SeqsUpTo(Alphabet, MaxLen)

NestPieces == {<<"<", "<">>, <<">", ">">>, <<"[">>, <<"]">>}

\* region delimiters only, up to MaxPieces of them
NestInputs == {Flatten(p) : p \in SeqsUpTo(NestPieces, MaxPieces)}

Tokens ==
    { <<SQ, "a", SQ>>, <<SQ, BS, SQ, SQ>>, <<DQ, BS, "a", DQ>>, <<BT, NL, BT>>,
      <<"/", "/", "a">>, <<"/", "*", "a", "*", "/">>, <<"/">>,
      <<NL>>, <<" ">>, <<"a">>, <<"[">>, <<"]">>, <<">", ">">>, <<"<", "<">>,
      <<"\t">>, <<DQ, SQ, DQ>>, <<SQ, "[", SQ>>, <<DQ, "]", DQ>>, <<DQ, ">", ">", DQ>> }

Wrappers ==
    { <<<<>>, <<>>>>,
      <<<<"<", "<">>, <<">", ">">>>>,
      <<<<"<", "<", "[">>, <<"]", ">", ">">>>> }

\* up to MaxTokens lexical tokens at Root, in a stylesheet region, in a host expression
TokenInputs ==
    {w[1] \o Flatten(t) \o w[2] : w \in Wrappers, t \in SeqsUpTo(Tokens, MaxTokens)}

\* the concrete scenarios of the documentation
Scenarios ==
    { <<"<", "<", "c", "o", "l", "o", "r", ">", ">">>,
      <<"<", "<", " ", SQ, "a", SQ, " ", "+", " ", "[", "x", "+", "1", "]", " ", ">", ">">>,
      <<"a", " ", "/", "*", " ", "c", " ", "*", "/", " ", "b">>,
      <<DQ, "a", "b", "c">>,
      <<"/", "/", "a", NL, SQ, "a", SQ>>,
      <<"<", "<", "[", "a", "[", "0", "]", "]", ">", ">">>,
      <<"<", "<", "[", "a", "[", "0", "]", " ", "]", ">", ">">>,
      <<"<", "<", "[", "a", "[", "0", "]", "a", "]", ">", ">">>,
      <<"<", "<", "[", "[", "]", SQ, "[", SQ, "]", ">", ">">>,
      <<"<", "<", "[", "[", "]", "/", "/", "]", NL, "]", ">", ">">> }

\* stretches of literal text between the delimiters of a nested input
Fill == {<<>>, <<"a">>, <<"a", "a">>}

\* a stylesheet expression holding a host expression holding a stylesheet expression
RoundTrip(x, y, z, w, v) ==
    <<"<", "<">> \o x \o <<"[">> \o y \o <<"<", "<">> \o z \o <<">", ">">>
        \o w \o <<"]">> \o v \o <<">", ">">>

RoundTripInputs ==
    {RoundTrip(x, y, z, w, v) : x \in Fill, y \in Fill, z \in Fill, w \in Fill, v \in Fill}

Inputs == ShortInputs \cup NestInputs \cup TokenInputs \cup RoundTripInputs \cup Scenarios

----------------------------------------------------------------------------
(* The run *)

\* new Transpiler(filename, input)
Init ==
    /\ orig \in Inputs
    /\ input = orig
    /\ line = 1
    /\ ctx = <<NewCtx("Root", 1)>>
    /\ pc = "main"
    /\ type = ""
    /\ tok = <<>>
    /\ mark = Len(orig) + 1
    /\ result = <<>>
    /\ err = NoError

\* a driver iteration begins: the loop condition next = this.peek() held
Iteration ==
    /\ pc = "main"
    /\ input # <<>>
    /\ mark' = Len(input)
    /\ orig' = orig

\* transpile: quoteRegex.test(next), then STRING up to its loop
StringOpen ==
    /\ Iteration
    /\ Peek(input) \in quoteRegex
    /\ type' = Peek(input)
    /\ tok' = <<Peek(input)>>
    /\ input' = Rest(input)
    /\ line' = LineAfter(input, line)
    /\ pc' = "string"
    /\ UNCHANGED <<ctx, result, err>>

\* the loop of STRING, case backslash
StringEscape ==
    /\ pc = "string"
    /\ input # <<>>
    /\ Peek(input) # type
    /\ Peek(input) = BS
    /\ tok' = tok \o Text(Peek(Rest(input)))
    /\ input' = Rest(Rest(input))
    /\ line' = LineAfter(Rest(input), LineAfter(input, line))
    /\ UNCHANGED <<orig, ctx, pc, type, mark, result, err>>

\* the loop of STRING, case newline, in a single- or double-quoted string
StringMultiLine ==
    /\ pc = "string"
    /\ input # <<>>
    /\ Peek(input) # type
    /\ Peek(input) = NL
    /\ type # BT
    /\ err' = Error("Unexpected multi-line string")
    /\ pc' = "error"
    /\ UNCHANGED <<orig, input, line, ctx, type, tok, mark, result>>

\* the loop of STRING with the multi-line check left out
StringChar_AnyNewline ==
    /\ pc = "string"
    /\ input # <<>>
    /\ Peek(input) # type
    /\ Peek(input) # BS
    /\ tok' = tok \o Text(Peek(input))
    /\ input' = Rest(input)
    /\ line' = LineAfter(input, line)
    /\ UNCHANGED <<orig, ctx, pc, type, mark, result, err>>

\* the loop of STRING, default (and the newline of a backtick string)
StringChar ==
    /\ pc = "string"
    /\ input # <<>>
    /\ Peek(input) # type
    /\ Peek(input) # BS
    /\ Peek(input) = NL => type = BT
    /\ tok' = tok \o Text(Peek(input))
    /\ input' = Rest(input)
    /\ line' = LineAfter(input, line)
    /\ UNCHANGED <<orig, ctx, pc, type, mark, result, err>>

\* STRING after its loop, input exhausted
StringEOF ==
    /\ pc = "string"
    /\ input = <<>>
    /\ err' = Error("Unexpected end of file")
    /\ pc' = "error"
    /\ UNCHANGED <<orig, input, line, ctx, type, tok, mark, result>>

\* STRING after its loop, at the closing delimiter
StringClose ==
    /\ pc = "string"
    /\ input # <<>>
    /\ Peek(input) = type
    /\ ctx' = SetCur(Add(Cur, tok \o Text(Peek(input)), STRING_))
    /\ input' = Rest(input)
    /\ line' = LineAfter(input, line)
    /\ pc' = "main"
    /\ UNCHANGED <<orig, type, tok, mark, result, err>>

\* transpile: next is a slash, COMMENT sees two slashes, lineComment up to its loop
LineCommentOpen ==
    /\ Iteration
    /\ Peek2(input) = <<"/", "/">>
    /\ tok' = <<>>
    /\ pc' = "lineComment"
    /\ UNCHANGED <<input, line, ctx, type, result, err>>

\* the loop of lineComment
LineCommentChar ==
    /\ pc = "lineComment"
    /\ input # <<>>
    /\ Peek(input) # NL
    /\ tok' = tok \o <<Peek(input)>>
    /\ input' = Rest(input)
    /\ line' = LineAfter(input, line)
    /\ UNCHANGED <<orig, ctx, pc, type, mark, result, err>>

\* lineComment after its loop
LineCommentEnd ==
    /\ pc = "lineComment"
    /\ input = <<>> \/ Peek(input) = NL
    /\ ctx' = SetCur(Add(Cur, tok, COMMENT))
    /\ pc' = "main"
    /\ UNCHANGED <<orig, input, line, type, tok, mark, result, err>>

\* transpile: next is a slash, COMMENT sees slash-star, blockComment up to its loop
BlockCommentOpen ==
    /\ Iteration
    /\ Peek2(input) = <<"/", "*">>
    /\ tok' = <<"/", "*">>
    /\ input' = Rest(Rest(input))
    /\ line' = line
    /\ pc' = "blockComment"
    /\ UNCHANGED <<ctx, type, result, err>>

\* the loop of blockComment
BlockCommentChar ==
    /\ pc = "blockComment"
    /\ Peek2(input) # <<>>
    /\ Peek2(input) # <<"*", "/">>
    /\ tok' = tok \o <<Peek(input)>>
    /\ input' = Rest(input)
    /\ line' = LineAfter(input, line)
    /\ UNCHANGED <<orig, ctx, pc, type, mark, result, err>>

\* blockComment after its loop: content += this.next() + this.next()
BlockCommentEnd ==
    /\ pc = "blockComment"
    /\ Peek2(input) = <<>> \/ Peek2(input) = <<"*", "/">>
    /\ LET tail == IF input = <<>> THEN NaNText ELSE <<"*", "/">>
       IN  ctx' = SetCur(Add(Cur, tok \o tail, COMMENT))
    /\ input' = Rest(Rest(input))
    /\ line' = line
    /\ pc' = "main"
    /\ UNCHANGED <<orig, type, tok, mark, result, err>>

\* transpile: next is a slash, COMMENT sees neither comment opener
Slash ==
    /\ Iteration
    /\ Peek(input) = "/"
    /\ Peek2(input) # <<"/", "/">>
    /\ Peek2(input) # <<"/", "*">>
    /\ ctx' = SetCur(Add(Cur, <<Peek(input)>>, NoType))
    /\ input' = Rest(input)
    /\ line' = line
    /\ UNCHANGED <<pc, type, tok, result, err>>

\* transpile: whitespaceRegex.test(next), WHITESPACE
Whitespace ==
    /\ Iteration
    /\ Peek(input) \in whitespaceRegex
    /\ ctx' = SetCur(Add(Cur, <<Peek(input)>>, WHITESPACE))
    /\ input' = Rest(input)
    /\ line' = LineAfter(input, line)
    /\ UNCHANGED <<pc, type, tok, result, err>>

\* none of the string, comment and whitespace branches of transpile applies
Plain == Peek(input) \notin quoteRegex \cup {"/"} \cup whitespaceRegex

\* transpile: childContextStart() is true, newContext
NewContext ==
    /\ Iteration
    /\ Plain
    /\ ChildContextStarts(Cur, input)
    /\ input' = SubSeq(input, Len(OpenDelimiter(Cur)) + 1, Len(input))
    /\ line' = line
    /\ ctx' = Append(SetCur([Cur EXCEPT !.childContext = Len(ctx) + 1]),
                     NewCtx(ChildKind(Cur), line))
    /\ UNCHANGED <<pc, type, tok, result, err>>

\* transpile: contextEnd() is true, endContext
EndContext ==
    /\ Iteration
    /\ Plain
    /\ ~ChildContextStarts(Cur, input)
    /\ SeesEndDelimiter(Cur, input)
    /\ Cur.ignoreCount = 0
    /\ input' = SubSeq(input, Len(endDelimiter(Cur)) + 1, Len(input))
    /\ line' = line
    /\ ctx' = [SubSeq(ctx, 1, Len(ctx) - 1) EXCEPT
                  ![Len(ctx) - 1] = ChildContextEnd(ctx[Len(ctx) - 1], Cur)]
    /\ UNCHANGED <<pc, type, tok, result, err>>

\* transpile: JsContext.contextEnd() with ignoreCount > 0 appends the bracket and
\* returns false, and the driver's last branch then does add(this.next())
IgnoredEnd ==
    /\ Iteration
    /\ Plain
    /\ ~ChildContextStarts(Cur, input)
    /\ SeesEndDelimiter(Cur, input)
    /\ Cur.ignoreCount # 0
    /\ LET kept == [Add(Cur, <<Peek(input)>>, NoType) EXCEPT !.ignoreCount = @ - 1]
       IN  ctx' = SetCur(Add(kept, Text(Peek(Rest(input))), NoType))
    /\ input' = Rest(Rest(input))
    /\ line' = LineAfter(Rest(input), LineAfter(input, line))
    /\ UNCHANGED <<pc, type, tok, result, err>>

\* transpile: the last branch, add(this.next())
Literal ==
    /\ Iteration
    /\ Plain
    /\ ~ChildContextStarts(Cur, input)
    /\ ~SeesEndDelimiter(Cur, input)
    /\ ctx' = SetCur(Add(Cur, <<Peek(input)>>, NoType))
    /\ input' = Rest(input)
    /\ line' = LineAfter(input, line)
    /\ UNCHANGED <<pc, type, tok, result, err>>

\* transpile after its loop, a region still open
Unterminated ==
    /\ pc = "main"
    /\ input = <<>>
    /\ Cur.kind # "Root"
    /\ err' = [Error("Unexpected end of file. It looks like you forgot the closing")
                  EXCEPT !.endDelimiter = endDelimiter(Cur),
                         !.name = name(Cur),
                         !.startingLine = Cur.startingLine]
    /\ pc' = "error"
    /\ UNCHANGED <<orig, input, line, ctx, type, tok, mark, result>>

\* transpile after its loop, Root current
Return ==
    /\ pc = "main"
    /\ input = <<>>
    /\ Cur.kind = "Root"
    /\ result' = toString(Cur)
    /\ pc' = "done"
    /\ UNCHANGED <<orig, input, line, ctx, type, tok, mark, err>>

Next ==
    \/ StringOpen
    \/ StringEscape
    \/ StringMultiLine
    \/ StringChar
    \/ StringEOF
    \/ StringClose
    \/ LineCommentOpen
    \/ LineCommentChar
    \/ LineCommentEnd
    \/ BlockCommentOpen
    \/ BlockCommentChar
    \/ BlockCommentEnd
    \/ Slash
    \/ Whitespace
    \/ NewContext
    \/ EndContext
    \/ IgnoredEnd
    \/ Literal
    \/ Unterminated
    \/ Return

Spec == Init /\ [][Next]_vars

Terminated == pc \in {"done", "error"}

----------------------------------------------------------------------------
(* Notions the properties are stated with *)

\* the text consumed so far
Consumed == SubSeq(orig, 1, Len(orig) - Len(input))

\* the last n characters of s
LastOf(s, n) == SubSeq(s, Len(s) - n + 1, Len(s))

\* the number of newline characters in s
RECURSIVE Newlines(_)
Newlines(s) ==
    IF s = <<>> THEN 0 ELSE (IF Head(s) = NL THEN 1 ELSE 0) + Newlines(Tail(s))

\* s holds the two-character open delimiter of a stylesheet expression
HasOpenDelimiter(s) == \E i \in 1..(Len(s) - 1) : s[i] = "<" /\ s[i + 1] = "<"

\* s holds no quote, slash or whitespace: only delimiters and literal characters
DelimitersOnly(s) ==
    \A i \in 1..Len(s) : s[i] \notin quoteRegex \cup {"/", BS} \cup whitespaceRegex

\* The nesting the documentation describes, read off a text of delimiters and
\* literals: st is the chain of open regions, -1 for a stylesheet expression and
\* the bracket depth d >= 0 for a host expression.  TRUE when every region that
\* was opened is closed at the end of the text.
RECURSIVE Nests(_, _)
Nests(s, st) ==
    IF s = <<>> THEN st = <<>>
    ELSE LET top == IF st = <<>> THEN -2 ELSE st[Len(st)]
             pop == SubSeq(st, 1, Len(st) - 1)
             two == SubSeq(s, 3, Len(s))
         IN  CASE top # -1 /\ Peek2(s) = <<"<", "<">> -> Nests(two, Append(st, -1))
               [] top = -1 /\ Head(s) = "[" -> Nests(Tail(s), Append(st, 0))
               [] top = -1 /\ Peek2(s) = <<">", ">">> -> Nests(two, pop)
               [] top >= 0 /\ Head(s) = "[" -> Nests(Tail(s), Append(pop, top + 1))
               [] top > 0 /\ Head(s) = "]" -> Nests(Tail(s), Append(pop, top - 1))
               [] top = 0 /\ Head(s) = "]" -> Nests(Tail(s), pop)
               [] OTHER -> Nests(Tail(s), st)

\* a text of delimiters and literals in which every opened region is closed
Balanced(s) == DelimitersOnly(s) /\ Nests(s, <<>>)

\* the bracket depth of a host-expression body never goes below zero and ends at zero
RECURSIVE BracketsMatch(_, _)
BracketsMatch(s, d) ==
    IF s = <<>> THEN d = 0
    ELSE CASE Head(s) = "[" -> BracketsMatch(Tail(s), d + 1)
           [] Head(s) = "]" -> d > 0 /\ BracketsMatch(Tail(s), d - 1)
           [] OTHER -> BracketsMatch(Tail(s), d)

\* orig is one root-level stylesheet expression holding one host expression whose
\* body is made of literal characters and balanced bracket pairs
HostBody == SubSeq(orig, 4, Len(orig) - 3)

IsBracketScenario ==
    /\ Len(orig) >= 8
    /\ SubSeq(orig, 1, 3) = <<"<", "<", "[">>
    /\ LastOf(orig, 3) = <<"]", ">", ">">>
    /\ \A i \in 1..Len(HostBody) : HostBody[i] \in {"[", "]", "a", "0"}
    /\ \E i \in 1..Len(HostBody) : HostBody[i] = "["
    /\ BracketsMatch(HostBody, 0)

----------------------------------------------------------------------------
(* C1 *)

\* C1: a host expression whose body holds balanced extra bracket pairs is closed by
\* its real terminating bracket, wherever the inner pair sits: the run ends with
\* Root current and the body, inner brackets included, handed to jsExpr.
C1_ClosesAtRealBracket ==
    (Terminated /\ IsBracketScenario) =>
        /\ pc = "done"
        /\ result = EvaluateOpen \o <<SQ>> \o JsExprOpen \o HostBody \o JsExprClose
                        \o <<SQ>> \o <<")">>

----------------------------------------------------------------------------
(* C2 *)

\* the step closes a stylesheet expression
ClosesHss == pc = "main" /\ Cur.kind = "Hss" /\ Len(ctx') = Len(ctx) - 1

\* the content of the parent of the current context
ParentContent == ctx[Len(ctx) - 1].content

\* the string literal a closing stylesheet expression is serialized to
Quoted(content) == <<SQ>> \o Trim(content) \o <<SQ>>

\* C2 as stated: every closed stylesheet expression, at any depth, is folded into
\* its parent as an evaluate(...) call.
C2_EveryRegionFoldsAsEvaluate ==
    [][ClosesHss =>
          Cur'.content = ParentContent \o EvaluateOpen \o Quoted(Cur.content) \o <<")">>]_vars

\* the step folds a closing stylesheet expression into its parent: as an
\* evaluate(...) call into Root, as the bare string literal into a host expression
FoldsByParent ==
    ClosesHss =>
        Cur'.content =
            IF Len(ctx) = 2
            THEN ParentContent \o EvaluateOpen \o Quoted(Cur.content) \o <<")">>
            ELSE ParentContent \o Quoted(Cur.content)

\* the output of a nested input: evaluate( wrapping jsExpr( wrapping a string literal
RoundTripOutput(x, y, z, w, v) ==
    EvaluateOpen \o <<SQ>> \o x \o JsExprOpen \o y \o <<SQ>> \o z \o <<SQ>> \o w
        \o JsExprClose \o v \o <<SQ>> \o <<")">>

RoundTripReturns ==
    \A x \in Fill, y \in Fill, z \in Fill, w \in Fill, v \in Fill :
        (pc = "done" /\ orig = RoundTrip(x, y, z, w, v)) =>
            result = RoundTripOutput(x, y, z, w, v)

\* C2 (amended): a stylesheet expression holding a host expression holding a
\* stylesheet expression returns exactly two nested call expressions, evaluate(
\* wrapping jsExpr( wrapping the inner region's bare string literal; a closed
\* stylesheet expression is folded as an evaluate(...) call only into Root, and
\* as its quoted string alone into a host expression.
C2_RoundTripNesting == []RoundTripReturns /\ [][FoldsByParent]_vars

\* C2 witness: a nested input was transpiled and returned the two-call output
C2_Witness ==
    /\ pc = "done"
    /\ orig = RoundTrip(<<"a">>, <<"a">>, <<"a">>, <<"a">>, <<"a">>)
    /\ result = RoundTripOutput(<<"a">>, <<"a">>, <<"a">>, <<"a">>, <<"a">>)

----------------------------------------------------------------------------
(* C3 *)

\* C3: an input with no open delimiter of a stylesheet expression is returned
\* character for character.
C3_RootPassThrough ==
    (pc = "done" /\ ~HasOpenDelimiter(orig)) => result = orig

----------------------------------------------------------------------------
(* C4 *)

\* C4: a balanced input never raises the unterminated-region error.
C4_BalancedNeverUnterminated ==
    (pc = "error" /\ err.name # "") => ~Balanced(orig)

----------------------------------------------------------------------------
(* C5 *)

\* C5: the STRING token handed to the current context is exactly the consumed
\* input from the opening delimiter through the closing delimiter, the backslash
\* and the escaped character of every escape included.
C5_TokenIsConsumedText ==
    [][(pc = "string" /\ pc' = "main") =>
          LET token == tok \o <<type>>
          IN  /\ Len(token) <= Len(Consumed')
              /\ token = LastOf(Consumed', Len(token))]_vars

----------------------------------------------------------------------------
(* C6 *)

MultiLineMsg == "Unexpected multi-line string"
EndOfFileMsg == "Unexpected end of file"
UnterminatedMsg == "Unexpected end of file. It looks like you forgot the closing"

\* the state in which transpile ended
EndCheck ==
    /\ pc = "done" =>
          /\ input = <<>>
          /\ Len(ctx) = 1 /\ Cur.kind = "Root"
          /\ result = Cur.content
          /\ err = NoError
    /\ (pc = "error" /\ err.msg = UnterminatedMsg) =>
          /\ input = <<>>
          /\ Len(ctx) > 1
          /\ Cur.kind = "Hss" =>
                err.name = "Hss expression" /\ err.endDelimiter = <<">", ">">>
          /\ Cur.kind = "Js" =>
                err.name = "JavaScript expression" /\ err.endDelimiter = <<"]">>
          /\ Cur.kind \in {"Hss", "Js"}
          /\ err.startingLine = Cur.startingLine
          /\ result = <<>>
    /\ (Terminated /\ err.msg \notin {MultiLineMsg, EndOfFileMsg}) =>
          (pc = "done" <=> Cur.kind = "Root")
    /\ (Terminated /\ orig = <<"<", "<">>) =>
          /\ pc = "error"
          /\ err.name = "Hss expression"
          /\ err.startingLine = 1

\* the step taken when the input is exhausted in the driver loop decides by the
\* current context alone
EndStep ==
    (pc = "main" /\ input = <<>>) =>
        /\ Cur.kind = "Root" => pc' = "done" /\ result' = Cur.content
        /\ Cur.kind # "Root" => pc' = "error" /\ err'.msg = UnterminatedMsg

\* a region's starting line is the line of its opening delimiter, the text that
\* was consumed last when the region is created, and it is never changed
StartingLines ==
    /\ Len(ctx') > Len(ctx) =>
          LET open == IF Cur'.kind = "Hss" THEN <<"<", "<">> ELSE <<"[">>
              before == SubSeq(Consumed', 1, Len(Consumed') - Len(open))
          IN  /\ LastOf(Consumed', Len(open)) = open
              /\ Cur'.startingLine = 1 + Newlines(before)
    /\ \A i \in 1..Len(ctx) :
          i <= Len(ctx') => ctx'[i].startingLine = ctx[i].startingLine

\* C6: transpile returns an output exactly when Root is current at the end of the
\* input (no string error having occurred); otherwise the error names the innermost
\* open region, its close delimiter and its starting line, the line of the
\* opening delimiter of that region.
C6_EndOfInputCheck == []EndCheck /\ [][EndStep /\ StartingLines]_vars

\* C6 witness: an unterminated host expression opened on line 2 was reported
C6_Witness ==
    /\ pc = "error"
    /\ err.name = "JavaScript expression"
    /\ err.endDelimiter = <<"]">>
    /\ err.startingLine = 2

----------------------------------------------------------------------------
(* C7 *)

\* a string error was thrown: where, and with which line
StringErrors ==
    /\ (pc = "error" /\ err.msg = MultiLineMsg) =>
          /\ type \in {SQ, DQ}
          /\ Peek(input) = NL
          /\ err.line = line
          /\ result = <<>>
    /\ (pc = "error" /\ err.msg = EndOfFileMsg) =>
          /\ type \in quoteRegex
          /\ input = <<>>
          /\ err.line = line
          /\ result = <<>>
    /\ (Terminated /\ orig = <<DQ, "a", "b", "c">>) =>
          (pc = "error" /\ err.msg = EndOfFileMsg /\ err.line = 1)

\* what a step of the string scanner does at a raw newline and at the end of input
StringStep ==
    pc = "string" =>
        /\ input = <<>> =>
              pc' = "error" /\ err'.msg = EndOfFileMsg /\ err'.line = line
        /\ (input # <<>> /\ Head(input) = NL /\ type \in {SQ, DQ}) =>
              pc' = "error" /\ err'.msg = MultiLineMsg /\ err'.line = line
        /\ (input # <<>> /\ Head(input) = NL /\ type = BT) =>
              pc' = "string" /\ tok' = tok \o <<NL>> /\ input' = Tail(input) /\ err' = NoError

\* C7: a raw newline in a single- or double-quoted string throws the multi-line
\* error, a raw newline in a backtick string is kept in the token, and the end of
\* the input before the closing delimiter throws the end-of-file error, in every
\* context; the error carries the current line and nothing is returned.
C7_StringErrors == []StringErrors /\ [][StringStep]_vars

\* C7 witness: the multi-line error was thrown inside a region
C7_Witness ==
    /\ pc = "error"
    /\ err.msg = MultiLineMsg
    /\ Len(ctx) > 1
    /\ type = SQ

----------------------------------------------------------------------------
(* C8 *)

\* a comment scanner hands over its token
CommentEnds == pc \in {"lineComment", "blockComment"} /\ pc' = "main"

\* the text of the comment: all of it is consumed input, from its opener on
CommentText == tok \o (IF pc = "blockComment" THEN <<"*", "/">> ELSE <<>>)

CommentStep ==
    /\ pc \in {"lineComment", "blockComment"} /\ ~CommentEnds => ctx' = ctx
    /\ (CommentEnds /\ Len(ctx) > 1) => ctx' = ctx
    /\ (CommentEnds /\ Len(ctx) = 1 /\ (pc = "blockComment" => input # <<>>)) =>
          /\ Cur'.content = Cur.content \o CommentText
          /\ CommentText = LastOf(Consumed', Len(CommentText))
          /\ SubSeq(CommentText, 1, 2) \in {<<"/", "/">>, <<"/", "*">>}

\* a slash that opens no comment
LoneSlashStep ==
    (/\ pc = "main"
     /\ input # <<>>
     /\ Head(input) = "/"
     /\ Peek2(input) \notin {<<"/", "/">>, <<"/", "*">>}) =>
        /\ pc' = "main"
        /\ Len(ctx') = Len(ctx)
        /\ Cur' = [Cur EXCEPT !.content = @ \o <<"/">>]
        /\ input' = Tail(input)

\* C8: a line comment or a closed block comment scanned in a stylesheet or host
\* expression adds nothing to any context, the same comment scanned at Root is
\* appended to Root unchanged, and a slash that opens no comment is appended as a
\* literal in every context.
C8_CommentsRegionScoped == [][CommentStep /\ LoneSlashStep]_vars

\* C8 witness: a line comment inside a stylesheet expression left no trace
C8_Witness ==
    /\ pc = "done"
    /\ orig = <<"<", "<", "/", "/", "a", NL, ">", ">">>
    /\ result = EvaluateOpen \o <<SQ, SQ, ")">>

----------------------------------------------------------------------------
(* C9 *)

\* the step closes a host expression
ClosesJs == pc = "main" /\ Cur.kind = "Js" /\ Len(ctx') = Len(ctx) - 1

FoldShapes ==
    /\ (ClosesHss /\ Len(ctx) = 2) =>
          Cur'.content = ParentContent \o EvaluateOpen \o <<SQ>> \o Trim(Cur.content)
                             \o <<SQ>> \o <<")">>
    /\ ClosesJs =>
          Cur'.content = ParentContent \o JsExprOpen \o Cur.content \o JsExprClose

ColorInput == <<"<", "<", "c", "o", "l", "o", "r", ">", ">">>

ColorOutput == EvaluateOpen \o <<SQ, "c", "o", "l", "o", "r", SQ, ")">>

ConcatInput ==
    <<"<", "<", " ", SQ, "a", SQ, " ", "+", " ", "[", "x", "+", "1", "]", " ", ">", ">">>

ConcatOutput ==
    EvaluateOpen \o <<SQ, BS, SQ, "a", BS, SQ, " ", "+", " ">> \o JsExprOpen
        \o <<"x", "+", "1">> \o JsExprClose \o <<SQ, ")">>

ScenarioOutputs ==
    /\ (Terminated /\ orig = ColorInput) => (pc = "done" /\ result = ColorOutput)
    /\ (Terminated /\ orig = ConcatInput) => (pc = "done" /\ result = ConcatOutput)

----------------------------------------------------------------------------
(* C10 *)

\* every iteration of a loop consumes input
Consumes ==
    /\ (pc \in {"string", "lineComment", "blockComment"} /\ pc' = pc) =>
          Len(input') < Len(input)
    /\ (pc = "main" /\ ~Terminated') => mark' = Len(input)
    /\ (~Terminated /\ pc' = "main") => Len(input') < mark'

\* where the run stands within one driver iteration: a step that consumes no
\* input moves to a lower rank
Rank ==
    CASE pc = "main" -> 2
      [] pc = "blockComment" -> 3
      [] pc = "lineComment" -> IF tok = <<>> THEN 1 ELSE 3
      [] pc = "string" -> 1
      [] OTHER -> 0

\* what is left to do: decreases with every step, so no run is infinite
Measure == 4 * Len(input) + Rank

\* C10: every run ends, returning or throwing: a run that has not ended can take a
\* step, and every step lowers a measure bounded by the length of the input; every
\* iteration of the driver loop and of the string, line-comment and block-comment
\* loops consumes at least one character.
C10_Terminates ==
    [](Terminated \/ ENABLED Next) /\ [][Consumes /\ Measure' < Measure]_vars

\* C10 witness: a run over a comment and a string came back to the driver loop
\* having consumed the whole input, and returned
C10_Witness ==
    /\ pc = "done"
    /\ orig = <<"/", "/", "a", NL, SQ, "a", SQ>>
    /\ mark = 3

----------------------------------------------------------------------------
(* C11 *)

\* the line number is that of the next unconsumed character
LineInv == line = 1 + Newlines(Consumed)

\* the line number never goes back, and a step that consumes nothing (a peek, or
\* next on exhausted input) leaves it alone
LineStep == line' >= line /\ (input' = input => line' = line)

\* C11: in every reachable state the line number is 1 plus the number of newline
\* characters consumed so far, whichever path consumed them; it never decreases
\* and is not changed by a step that consumes nothing.
C11_LineCounter == []LineInv /\ [][LineStep]_vars

\* C11 witness: two newlines were consumed, one of them inside a string
C11_Witness ==
    /\ line = 3
    /\ pc = "string"
    /\ \E i \in 1..Len(tok) : tok[i] = NL
    /\ Newlines(Consumed) = 2

----------------------------------------------------------------------------
(* C12 *)

\* the characters of a text
Chars(s) == {s[i] : i \in 1..Len(s)}

\* the characters the serialization and the handlers of the contexts write
WrittenChars ==
    Chars(EvaluateOpen) \cup Chars(JsExprOpen) \cup Chars(JsExprClose)
        \cup {")", SQ, BS, " "}

\* C12: the end of the input is a sentinel to every caller: the content of every
\* context holds only characters consumed from the input and characters the
\* contexts write themselves, also after a block comment left open, and after a
\* suppressed closing bracket that is the last character of the input.
C12_EndOfInputIsSentinel ==
    \A i \in 1..Len(ctx) : Chars(ctx[i].content) \subseteq Chars(orig) \cup WrittenChars

----------------------------------------------------------------------------
(* C13 *)

\* the position of the delimiter that closes the string whose body starts at j,
\* past the end of s when there is none
RECURSIVE StringEndAt(_, _, _)
StringEndAt(s, j, q) ==
    IF j > Len(s) THEN Len(s) + 1
    ELSE IF s[j] = q THEN j
    ELSE IF s[j] = BS THEN StringEndAt(s, j + 2, q)
    ELSE StringEndAt(s, j + 1, q)

\* the position of the newline that ends the line comment running through j
RECURSIVE LineEndAt(_, _)
LineEndAt(s, j) ==
    IF j > Len(s) \/ s[j] = NL THEN j ELSE LineEndAt(s, j + 1)

\* the position of the slash that closes the block comment whose body starts at j
RECURSIVE BlockEndAt(_, _)
BlockEndAt(s, j) ==
    IF j >= Len(s) THEN Len(s) + 1
    ELSE IF s[j] = "*" /\ s[j + 1] = "/" THEN j + 1
    ELSE BlockEndAt(s, j + 1)

\* the positions of s, from i on, that lie in a string literal or in a comment
RECURSIVE Lexed(_, _)
Lexed(s, i) ==
    IF i > Len(s) THEN {}
    ELSE IF s[i] \in quoteRegex
         THEN LET e == StringEndAt(s, i + 1, s[i]) IN (i..e) \cup Lexed(s, e + 1)
    ELSE IF i < Len(s) /\ s[i] = "/" /\ s[i + 1] = "/"
         THEN LET e == LineEndAt(s, i) IN (i..(e - 1)) \cup Lexed(s, e)
    ELSE IF i < Len(s) /\ s[i] = "/" /\ s[i + 1] = "*"
         THEN LET e == BlockEndAt(s, i + 2) IN (i..e) \cup Lexed(s, e + 1)
    ELSE Lexed(s, i + 1)

\* the step opens or closes a region, or changes the bracket counter of the
\* current host expression
ActsOnDelimiter ==
    \/ Len(ctx') # Len(ctx)
    \/ Cur'.ignoreCount # Cur.ignoreCount

\* the positions of the region delimiters the step consumed
DelimitersConsumed ==
    {k \in (Len(Consumed) + 1)..Len(Consumed') : orig[k] \in {"<", ">", "[", "]"}}

\* C13: a region delimiter that lies inside a string literal or a comment never
\* opens a region, never closes a region and never changes the bracket counter of
\* a host expression.
C13_DelimitersInert ==
    [][(pc = "main" /\ pc' = "main" /\ ActsOnDelimiter) =>
          DelimitersConsumed \cap Lexed(orig, 1) = {}]_vars

----------------------------------------------------------------------------
(* C14 *)

\* the kind of region that may be open directly inside a context of kind k
ChildOf(k) == IF k = "Hss" THEN "Js" ELSE "Hss"

StackShape ==
    /\ Len(ctx) >= 1
    /\ ctx[1].kind = "Root"
    /\ \A i \in 2..Len(ctx) : ctx[i].kind # "Root" /\ ctx[i].kind = ChildOf(ctx[i - 1].kind)
    /\ \A i \in 1..(Len(ctx) - 1) : ctx[i].childContext = i + 1
    /\ Cur.childContext = 0

\* the open delimiter of a stylesheet region, met while a stylesheet region is current
NestedOpenIsLiteral ==
    (pc = "main" /\ Cur.kind = "Hss" /\ Peek2(input) = <<"<", "<">>) =>
        /\ Len(ctx') = Len(ctx)
        /\ input' = Rest(input)
        /\ Cur' = [Cur EXCEPT !.content = @ \o <<"<">>]

\* C14: the stack of open contexts starts at the single Root, the kinds alternate
\* (Root holds a stylesheet region, a stylesheet region holds a host expression, a
\* host expression holds a stylesheet region), every context but the current one
\* has its successor as childContext, the current one has none, and the open
\* delimiter of a stylesheet region met inside a stylesheet region is literal text.
C14_StackShape == []StackShape /\ [][NestedOpenIsLiteral]_vars

C14_Witness ==
    /\ Len(ctx) = 4
    /\ Cur.kind = "Hss"
    /\ ctx[3].kind = "Js"
    /\ Cur.content = <<"<", "<">>

----------------------------------------------------------------------------
(* C15 *)

RootIsBottom == Len(ctx) >= 1 /\ ctx[1].kind = "Root"

\* a step taken while Root is current
RootStep ==
    (pc = "main" /\ Len(ctx) = 1) =>
        /\ Len(ctx') >= 1
        /\ ctx'[1].kind = "Root"
        /\ (input # <<>> /\ Head(input) \in {">", "]"}) =>
              /\ ctx' = <<[Cur EXCEPT !.content = @ \o <<Head(input)>>]>>
              /\ input' = Rest(input)

\* C15: Root is never closed. While Root is current a closing delimiter in the
\* lookahead is appended to Root's content as a literal character, Root stays
\* current, and the stack never drops below Root.
C15_RootNeverClosed == []RootIsBottom /\ [][RootStep]_vars

C15_Witness ==
    /\ Len(ctx) = 1
    /\ pc = "main"
    /\ Cur.content = <<">", ">", "]">>
    /\ input = <<>>

----------------------------------------------------------------------------
(* C16 *)

\* what a step added to the content of the current context, the depth unchanged
Added == SubSeq(Cur'.content, Len(Cur.content) + 1, Len(Cur'.content))

EndsWithSpace(s) == s # <<>> /\ s[Len(s)] = " "

\* a whitespace character met while a stylesheet region is current
WhitespaceStep ==
    (pc = "main" /\ Cur.kind = "Hss" /\ Peek(input) \in whitespaceRegex) =>
        /\ Len(ctx') = Len(ctx)
        /\ input' = Rest(input)
        /\ Cur'.content = Cur.content \o (IF EndsWithSpace(Cur.content) THEN <<>> ELSE <<" ">>)

\* a driver iteration with a stylesheet region current adds no raw whitespace
NoRawWhitespace ==
    (pc = "main" /\ Cur.kind = "Hss" /\ Len(ctx') = Len(ctx)) =>
        /\ Len(Added) <= 1
        /\ \A i \in 1..Len(Added) : Added[i] \notin {NL, "\t"}
        /\ Added = <<" ">> => ~EndsWithSpace(Cur.content)

\* the string literal a closing stylesheet region hands to its parent
FoldedLiteral ==
    LET grown == SubSeq(ctx'[Len(ctx) - 1].content, Len(ParentContent) + 1,
                        Len(ctx'[Len(ctx) - 1].content))
    IN  IF Len(ctx) = 2
        THEN SubSeq(grown, Len(EvaluateOpen) + 1, Len(grown) - 1)
        ELSE grown

TrimmedFold ==
    ClosesHss =>
        LET lit == FoldedLiteral
        IN  /\ Len(lit) >= 2
            /\ lit[1] = SQ
            /\ lit[Len(lit)] = SQ
            /\ Len(lit) > 2 => ~IsSpace(lit[2]) /\ ~IsSpace(lit[Len(lit) - 1])

\* with no string token and no host expression, the content is free of tabs,
\* newlines and double spaces
Collapsed ==
    (\A k \in 1..Len(orig) : orig[k] \notin quoteRegex \cup {"["}) =>
        \A i \in 2..Len(ctx) :
            LET c == ctx[i].content
            IN  /\ \A k \in 1..Len(c) : c[k] \notin {NL, "\t"}
                /\ \A k \in 1..(Len(c) - 1) : ~(c[k] = " " /\ c[k + 1] = " ")

\* C16: while a stylesheet region is current, a whitespace character outside a
\* string literal is dropped or appended as one space, appended only when the
\* content does not already end with a space; outside string tokens and folded
\* child text the content holds no tab, no newline and no two consecutive spaces,
\* and the serialized region has no whitespace next to its wrapping quotes.
C16_WhitespaceCollapses ==
    []Collapsed /\ [][WhitespaceStep /\ NoRawWhitespace /\ TrimmedFold]_vars

C16_Witness ==
    /\ pc = "done"
    /\ orig = <<"<", "<", "\t", NL, ">", ">">>
    /\ result = EvaluateOpen \o <<SQ, SQ, ")">>

----------------------------------------------------------------------------
(* C17 *)

CounterInv ==
    \A i \in 1..Len(ctx) :
        /\ ctx[i].ignoreCount >= 0
        /\ ctx[i].kind # "Js" => ctx[i].ignoreCount = 0

\* the step appends a closing bracket whose close the counter suppresses
Suppressed ==
    pc = "main" /\ Cur.kind = "Js" /\ Peek(input) = "]" /\ Cur.ignoreCount > 0

\* the step appends a bare opening bracket to a host expression
Opened ==
    /\ pc = "main"
    /\ Cur.kind = "Js"
    /\ IF Suppressed THEN Peek(Rest(input)) = "[" ELSE Peek(input) = "["

CounterStep ==
    /\ \A i \in 1..Len(ctx) :
          (i <= Len(ctx') /\ (i < Len(ctx) \/ Len(ctx') # Len(ctx))) =>
              ctx'[i].ignoreCount = ctx[i].ignoreCount
    /\ Len(ctx') > Len(ctx) => Cur'.ignoreCount = 0
    /\ Len(ctx') = Len(ctx) =>
          Cur'.ignoreCount = Cur.ignoreCount + (IF Opened THEN 1 ELSE 0)
                                             - (IF Suppressed THEN 1 ELSE 0)

\* C17: the bracket counter of every open host expression is never negative; a
\* step raises it by one exactly when it appends a bare opening bracket to that
\* expression, lowers it by one exactly when it appends a closing bracket whose
\* close is suppressed (the counter being positive), and no string token,
\* whitespace token or folded child string changes it.
C17_BracketCounter == []CounterInv /\ [][CounterStep]_vars

C17_Witness ==
    /\ pc = "main"
    /\ Cur.kind = "Js"
    /\ Cur.content = <<"[", SQ, "[", SQ>>
    /\ Cur.ignoreCount = 1

----------------------------------------------------------------------------
(* C18 *)

IsPrefix(s, t) == Len(s) <= Len(t) /\ SubSeq(t, 1, Len(s)) = s

\* what the parent appends when the current context closes
Folded ==
    LET ser == IF Cur.kind = "Hss"
               THEN <<SQ>> \o Trim(Cur.content) \o <<SQ>>
               ELSE JsExprOpen \o Cur.content \o JsExprClose
    IN  IF Len(ctx) = 2 THEN EvaluateOpen \o ser \o <<")">> ELSE ser

FrameStep ==
    /\ Len(ctx') \in {Len(ctx) - 1, Len(ctx), Len(ctx) + 1}
    /\ Len(ctx') = Len(ctx) =>
          /\ \A i \in 1..(Len(ctx) - 1) : ctx'[i].content = ctx[i].content
          /\ IsPrefix(Cur.content, Cur'.content)
    /\ Len(ctx') = Len(ctx) + 1 =>
          /\ \A i \in 1..Len(ctx) : ctx'[i].content = ctx[i].content
          /\ Cur'.content = <<>>
    /\ Len(ctx') = Len(ctx) - 1 =>
          /\ \A i \in 1..(Len(ctx) - 2) : ctx'[i].content = ctx[i].content
          /\ Cur'.content = ParentContent \o Folded

\* C18: a step changes the content of at most one context; the content of every
\* ancestor of the current context is unchanged except at the step that closes
\* its direct child, when it grows by exactly the child's folded serialization
\* appended at its end; content already accumulated is never removed or rewritten.
C18_Frame == [][FrameStep]_vars

C18_Witness ==
    /\ Len(ctx) = 2
    /\ Cur.kind = "Hss"
    /\ Len(Cur.content) > Len(JsExprOpen) + Len(JsExprClose)
    /\ SubSeq(Cur.content, 1, 3) = <<" ", BS, SQ>>
    /\ LastOf(Cur.content, Len(JsExprClose)) = JsExprClose

----------------------------------------------------------------------------
(* C19 *)

\* C19: with no host expression in the input, every single quote of a serialized
\* stylesheet region other than its two wrapping quotes is preceded by a backslash.
C19_QuotesEscaped ==
    (\A k \in 1..Len(orig) : orig[k] # "[") =>
        \A i \in 2..Len(ctx) :
            LET s == toString(ctx[i])
            IN  \A k \in 2..(Len(s) - 1) : s[k] = SQ => s[k - 1] = BS

====
